---------------------------- MODULE Spec2Model ----------------------------
(***************************************************************************)
(* A model of the utility layer of the Luxottica churn project:            *)
(*   src/src/luxottica_churn/utils/common.py  (file helpers)               *)
(*   src/src/luxottica_churn/utils/logger.py  (setup_logger)               *)
(*                                                                         *)
(* The state is the file system the helpers read and write (fs), the       *)
(* logging module's loggers with their handlers (logging), and, for the    *)
(* call made last, its arguments (call), its outcome (ret) and the levels  *)
(* of the log records it emitted (log).                                    *)
(*                                                                         *)
(* Each group of helpers has its own specification over these variables:   *)
(*   SpecSize    get_size                                                  *)
(*   SpecJson    save_json, load_json, read_yaml                           *)
(*   SpecSchema  validate_data_schema (through read_yaml)                  *)
(*   SpecCsv     save_csv, load_csv                                        *)
(*   SpecDirs    create_directories                                        *)
(*   SpecModel   save_model, load_model (through save_json, load_json)     *)
(*   SpecLogger  setup_logger                                              *)
(***************************************************************************)
EXTENDS Integers, Sequences, FiniteSets, TLC

VARIABLES fs, logging, call, ret, log

vars == <<fs, logging, call, ret, log>>

(***************************************************************************)
(* Outcomes of a call: a returned value or a raised exception.             *)
(***************************************************************************)
Return(v) == [raised |-> FALSE, exc |-> "", value |-> v]

Raise(e) == [raised |-> TRUE, exc |-> e, value |-> ""]

NoCall == [op |-> "none"]

NoRet == Return("")

\* Python's exception hierarchy, as far as the helpers meet it: the classes
\* that are ValueError or derive from it (box.exceptions.BoxValueError is
\* declared as class BoxValueError(BoxError, ValueError), and
\* json.JSONDecodeError as class JSONDecodeError(ValueError)).
IsValueError(e) == e \in {"ValueError", "BoxValueError", "JSONDecodeError"}

\* The logging module before any logger is configured.
NoLogging == [loggers |-> <<>>, created |-> 0]

\* A path that does not exist.
Absent == [kind |-> "absent"]

(***************************************************************************)
(*                               get_size                                  *)
(***************************************************************************)
\* The literal 1024 of get_size's comparisons.
KB == 1024

MB == KB * KB

Digit(d) == ToString(d)

\* The text of h hundredths with two decimals: 314 is "3.14".
Hundredths(h) == ToString(h \div 100) \o "." \o Digit((h % 100) \div 10) \o Digit(h % 10)

\* f"{num / den:.2f}" for a power of two den: the quotient is an exact
\* double, and the format rounds it to the nearest hundredth, a tie to the
\* even one.
Format2f(num, den) ==
    LET q == (num * 100) \div den
        r == (num * 100) % den
        h == IF 2 * r > den THEN q + 1
             ELSE IF 2 * r < den THEN q
             ELSE IF q % 2 = 0 THEN q ELSE q + 1
    IN  Hundredths(h)

\* size_text with each threshold off by one (<= where the code has <).
size_text_off_by_one(size_bytes) ==
    IF size_bytes <= KB THEN ToString(size_bytes) \o " B"
    ELSE IF size_bytes <= MB THEN Format2f(size_bytes, KB) \o " KB"
    ELSE Format2f(size_bytes, MB) \o " MB"

\* The three branches of get_size on the byte count os.path.getsize gave.
size_text(size_bytes) ==
    IF size_bytes < KB THEN ToString(size_bytes) \o " B"
    ELSE IF size_bytes < MB THEN Format2f(size_bytes, KB) \o " KB"
    ELSE Format2f(size_bytes, MB) \o " MB"

\* get_size(path): os.path.getsize raises for a path that does not exist.
get_size(files, path) ==
    IF files[path].kind = "absent" THEN Raise("FileNotFoundError")
    ELSE Return(size_text(files[path].size))

SizeWindow == 150

\* Byte counts on both sides of each threshold, and some well above.
Sizes ==
    (0 .. SizeWindow) \cup ((KB - SizeWindow) .. (KB + SizeWindow))
        \cup ((MB - SizeWindow) .. (MB + SizeWindow))
        \cup {k * 64 * KB + k : k \in 0 .. SizeWindow}

SizePath == "artifact.bin"

InitSize ==
    /\ fs = [p \in {SizePath} |-> Absent]
    /\ logging = NoLogging
    /\ call = NoCall
    /\ ret = NoRet
    /\ log = <<>>

\* Some writer leaves n bytes at the path.
WriteBytes(n) ==
    /\ fs' = [fs EXCEPT ![SizePath] = [kind |-> "file", size |-> n]]
    /\ call' = NoCall
    /\ ret' = NoRet
    /\ log' = <<>>
    /\ UNCHANGED logging

GetSize ==
    /\ call' = [op |-> "get_size", path |-> SizePath]
    /\ ret' = get_size(fs, SizePath)
    /\ log' = <<>>
    /\ UNCHANGED <<fs, logging>>

NextSize ==
    \/ \E n \in Sizes : WriteBytes(n)
    \/ GetSize

SpecSize == InitSize /\ [][NextSize]_vars

\* h is n/unit to the nearest hundredth.
Nearest(h, n, unit) ==
    /\ 2 * (h * unit - 100 * n) <= unit
    /\ 2 * (100 * n - h * unit) <= unit

TwoDecimals(text, n, unit, suffix) ==
    \E h \in ((100 * n) \div unit) .. ((100 * n) \div unit + 1) :
        /\ Nearest(h, n, unit)
        /\ text = Hundredths(h) \o suffix

\* C3: get_size picks the unit at the documented thresholds: below 1024
\* bytes the result is "<n> B" (1023 gives "1023 B"), from 1024 up to but
\* not including 1024*1024 it is n/1024 with two decimals and " KB" (1024
\* gives "1.00 KB"), from 1024*1024 on it is n/(1024*1024) with two
\* decimals and " MB".
C3_SizeThresholds ==
    (call.op = "get_size" /\ ~ret.raised) =>
        LET n == fs[SizePath].size
        IN  /\ (0 <= n /\ n < 1024) => ret.value = ToString(n) \o " B"
            /\ (1024 <= n /\ n < 1024 * 1024) =>
                   TwoDecimals(ret.value, n, 1024, " KB")
            /\ n >= 1024 * 1024 => TwoDecimals(ret.value, n, 1024 * 1024, " MB")
            /\ n = 1023 => ret.value = "1023 B"
            /\ n = 1024 => ret.value = "1.00 KB"
            /\ n = 1024 * 1024 => ret.value = "1.00 MB"

\* get_size has answered for the first byte count of the KB range.
C3_Witness ==
    /\ call.op = "get_size"
    /\ ~ret.raised
    /\ fs[SizePath].size = 1024
    /\ ret.value = "1.00 KB"


(***************************************************************************)
(*                    Python values and JSON documents                     *)
(*                                                                         *)
(* A Python value is a node [t, s, items]: t its type, s the text of an    *)
(* atom, items the elements of a list or tuple (nodes) or the entries of a *)
(* dict ([k, v], k and v nodes, in insertion order, the keys distinct).    *)
(* A JSON document is a node of type object, array, string, number or      *)
(* null; the entries of an object are [k, v] with k the member name, a     *)
(* plain string, and one name may occur twice.                             *)
(***************************************************************************)
Node(t, s, items) == [t |-> t, s |-> s, items |-> items]

StrV(s) == Node("str", s, <<>>)

IntV(s) == Node("int", s, <<>>)

NoneV == Node("none", "", <<>>)

\* A value json has no encoding for (a datetime, a set, ...).
Opaque(s) == Node("opaque", s, <<>>)

ListV(xs) == Node("list", "", xs)

TupleV(xs) == Node("tuple", "", xs)

DictV(es) == Node("dict", "", es)

Entry(k, v) == [k |-> k, v |-> v]

Keys(d) == {d.items[i].k : i \in 1 .. Len(d.items)}

\* d[k] of a dict d that has the key k.
Get(d, k) == d.items[CHOOSE i \in 1 .. Len(d.items) : d.items[i].k = k].v

\* Python's == on values: dicts compare by key set and values, whatever
\* the insertion order; a list never equals a tuple.
RECURSIVE PyEq(_, _)
PyEq(a, b) ==
    IF a.t # b.t THEN FALSE
    ELSE IF a.t = "dict"
        THEN /\ Keys(a) = Keys(b)
             /\ \A k \in Keys(a) : PyEq(Get(a, k), Get(b, k))
    ELSE IF a.t \in {"list", "tuple"}
        THEN /\ Len(a.items) = Len(b.items)
             /\ \A i \in 1 .. Len(a.items) : PyEq(a.items[i], b.items[i])
    ELSE a = b

\* bool(v) is False: None, 0, "", and the empty containers.
Falsy(v) ==
    \/ v.t = "none"
    \/ v.t \in {"dict", "list", "tuple"} /\ v.items = <<>>
    \/ v.t = "int" /\ v.s = "0"
    \/ v.t = "str" /\ v.s = ""

\* json.dump raises TypeError on a value it cannot encode and on a dict key
\* that is not str, int, float, bool or None.
RECURSIVE Serializable(_)
Serializable(v) ==
    IF v.t = "dict"
        THEN \A i \in 1 .. Len(v.items) :
                 /\ v.items[i].k.t \in {"str", "int", "none"}
                 /\ Serializable(v.items[i].v)
    ELSE IF v.t \in {"list", "tuple"}
        THEN \A i \in 1 .. Len(v.items) : Serializable(v.items[i])
    ELSE v.t \in {"str", "int", "none"}

\* The member name json writes for a dict key: a str as it is, an int as
\* its decimal text, None as null.
json_key_text(k) == IF k.t = "none" THEN "null" ELSE k.s

\* The document json.dump writes for a serializable value: tuples and lists
\* both become arrays, every dict key becomes a string.
RECURSIVE json_dump(_)
json_dump(v) ==
    IF v.t = "dict"
        THEN Node("object", "",
                 [i \in 1 .. Len(v.items) |->
                     Entry(json_key_text(v.items[i].k), json_dump(v.items[i].v))])
    ELSE IF v.t \in {"list", "tuple"}
        THEN Node("array", "", [i \in 1 .. Len(v.items) |-> json_dump(v.items[i])])
    ELSE IF v.t = "str" THEN Node("string", v.s, <<>>)
    ELSE IF v.t = "int" THEN Node("number", v.s, <<>>)
    ELSE Node("null", "", <<>>)

\* The value a parser builds from a document: an object becomes a dict
\* whose keys are strings, a name written twice keeping its last value.
RECURSIVE Construct(_)
RECURSIVE ConstructMembers(_, _)
ConstructMembers(es, i) ==
    IF i > Len(es) THEN <<>>
    ELSE LET first == \A j \in 1 .. (i - 1) : es[j].k # es[i].k
             last == CHOOSE j \in i .. Len(es) :
                         /\ es[j].k = es[i].k
                         /\ \A m \in (j + 1) .. Len(es) : es[m].k # es[i].k
         IN  (IF first THEN <<Entry(StrV(es[i].k), Construct(es[last].v))>> ELSE <<>>)
                 \o ConstructMembers(es, i + 1)

Construct(doc) ==
    IF doc.t = "object" THEN DictV(ConstructMembers(doc.items, 1))
    ELSE IF doc.t = "array"
        THEN ListV([i \in 1 .. Len(doc.items) |-> Construct(doc.items[i])])
    ELSE IF doc.t = "string" THEN StrV(doc.s)
    ELSE IF doc.t = "number" THEN IntV(doc.s)
    ELSE NoneV

(***************************************************************************)
(* Text files.  kind is "json" for a complete JSON text (doc its document, *)
(* saved the dict save_json was given, kept as history), "partial" for    *)
(* the start of a JSON text that json.dump left when it raised, "yaml" for *)
(* a YAML document written by hand (doc its document), "blank" for a file  *)
(* with no YAML content, "bad" for text that is not valid YAML.            *)
(***************************************************************************)
JsonFile(data) == [kind |-> "json", doc |-> json_dump(data), saved |-> data]

PartialFile == [kind |-> "partial"]

\* json.load: JSONDecodeError (a ValueError) on text that is not JSON.
json_load(file) ==
    IF file.kind = "absent" THEN Raise("FileNotFoundError")
    ELSE IF file.kind = "json" THEN Return(Construct(file.doc))
    ELSE Raise("JSONDecodeError")

\* yaml.safe_load: None for a file with no content, a YAMLError (derived
\* from Exception only) for invalid text; the JSON text save_json writes is
\* a YAML flow mapping.
yaml_safe_load(file) ==
    IF file.kind = "absent" THEN Raise("FileNotFoundError")
    ELSE IF file.kind = "blank" THEN Return(NoneV)
    ELSE IF file.kind \in {"json", "yaml"} THEN Return(Construct(file.doc))
    ELSE Raise("YAMLError")

\* ConfigBox(content): a dict subclass holding the same keys and values
\* (nested dicts become boxes, which compare as dicts).
ConfigBox(content) ==
    IF content.t = "dict" THEN Return(content) ELSE Raise("BoxValueError")

\* Every operation yields the file system it leaves, its outcome and the
\* levels of the records it logged.
Done(files, r, records) == [fs |-> files, ret |-> r, log |-> records]

\* save_json with the file opened for appending: a second save leaves two
\* documents in the file.
save_json_append(files, path, data) ==
    IF ~Serializable(data)
        THEN Done([files EXCEPT ![path] = PartialFile], Raise("TypeError"), <<>>)
    ELSE IF files[path].kind = "absent"
        THEN Done([files EXCEPT ![path] = JsonFile(data)], Return(NoneV), <<"info">>)
    ELSE Done([files EXCEPT ![path] = [kind |-> "bad"]], Return(NoneV), <<"info">>)

\* save_json(path, data): open(path, 'w') empties the file, json.dump
\* writes the document piece by piece and raises TypeError at the first
\* value it cannot encode, after which nothing is logged.
save_json(files, path, data) ==
    IF Serializable(data)
        THEN Done([files EXCEPT ![path] = JsonFile(data)], Return(NoneV), <<"info">>)
    ELSE Done([files EXCEPT ![path] = PartialFile], Raise("TypeError"), <<>>)

\* load_json(path): no handler around json.load, so its exception reaches
\* the caller unlogged.
load_json(files, path) ==
    LET content == json_load(files[path])
    IN  IF content.raised THEN Done(files, content, <<>>)
        ELSE LET box == ConfigBox(content.value)
             IN  Done(files, box, IF box.raised THEN <<>> ELSE <<"info">>)

\* `if content is None' in the place of `if not content'.
IsNone(v) == v.t = "none"

\* `if not content' in read_yaml.
Empty(content) == Falsy(content)

\* read_yaml(path): every exception of the body is logged once at level
\* error and raised again as it is.
read_yaml(files, path) ==
    LET content == yaml_safe_load(files[path])
    IN  IF content.raised THEN Done(files, content, <<"error">>)
        ELSE IF Empty(content.value)
            THEN Done(files, Raise("BoxValueError"), <<"error">>)
        ELSE LET box == ConfigBox(content.value)
             IN  IF box.raised THEN Done(files, box, <<"error">>)
                 ELSE Done(files, box, <<"info">>)

(***************************************************************************)
(*                 SpecJson: save_json, load_json, read_yaml               *)
(***************************************************************************)
MaxKeys == 2

KeyAtoms == {StrV("a"), StrV("1"), IntV("1")}

Values ==
    { StrV("x"), Opaque("datetime"),
      ListV(<<IntV("1")>>), TupleV(<<IntV("1")>>),
      DictV(<<Entry(StrV("a"), IntV("1"))>>) }

\* The dicts of at most MaxKeys entries, in every insertion order.
Dicts ==
    { DictV(es) : es \in
        { q \in UNION {[1 .. n -> [k : KeyAtoms, v : Values]] : n \in 0 .. MaxKeys} :
            \A i, j \in 1 .. Len(q) : i # j => q[i].k # q[j].k } }

\* The file the module's self-test writes with save_json and reads back
\* with read_yaml.
JsonPath == "test_config.yaml"

InitJson ==
    /\ fs = [p \in {JsonPath} |-> Absent]
    /\ logging = NoLogging
    /\ call = NoCall
    /\ ret = NoRet
    /\ log = <<>>

\* The outcome of an operation becomes the state.
Apply(out) ==
    /\ fs' = out.fs
    /\ ret' = out.ret
    /\ log' = out.log
    /\ UNCHANGED logging

SaveJson(d) ==
    /\ call' = [op |-> "save_json", path |-> JsonPath, data |-> d]
    /\ Apply(save_json(fs, JsonPath, d))

LoadJson ==
    /\ call' = [op |-> "load_json", path |-> JsonPath]
    /\ Apply(load_json(fs, JsonPath))

ReadYaml ==
    /\ call' = [op |-> "read_yaml", path |-> JsonPath]
    /\ Apply(read_yaml(fs, JsonPath))

\* Someone edits the file by hand: no content, or text that is not YAML.
WriteText(kind) ==
    /\ call' = NoCall
    /\ Apply(Done([fs EXCEPT ![JsonPath] = [kind |-> kind]], NoRet, <<>>))

\* os.remove(test_yaml), the self-test's cleanup.
RemoveFile ==
    /\ fs[JsonPath].kind # "absent"
    /\ call' = NoCall
    /\ Apply(Done([fs EXCEPT ![JsonPath] = Absent], NoRet, <<>>))

NextJson ==
    \/ \E d \in Dicts : SaveJson(d)
    \/ LoadJson
    \/ ReadYaml
    \/ \E kind \in {"blank", "bad"} : WriteText(kind)
    \/ RemoveFile

SpecJson == InitJson /\ [][NextJson]_vars

\* save_json(path, d) has just returned and the next call is `op' on the
\* same path.
SavedThen(op) ==
    /\ call.op = "save_json"
    /\ ~ret.raised
    /\ call'.op = op
    /\ call'.path = call.path

\* The loaded mapping equals the dict that was saved.
LoadedEquals(d) == ~ret'.raised /\ PyEq(ret'.value, d)

\* What JSON holds as it is: str keys at every level, and None, int and
\* str values, lists and such dicts; no tuple.
RECURSIVE JsonNative(_)
JsonNative(v) ==
    IF v.t = "dict"
        THEN \A i \in 1 .. Len(v.items) :
                 v.items[i].k.t = "str" /\ JsonNative(v.items[i].v)
    ELSE IF v.t = "list" THEN \A i \in 1 .. Len(v.items) : JsonNative(v.items[i])
    ELSE v.t \in {"str", "int", "none"}

\* C4 as stated: for every dict d that save_json writes without error,
\* save_json(path, d) followed by load_json(path) returns a mapping equal
\* to d, whatever the types of its keys and values.
C4_RoundTripAnyDict ==
    [][SavedThen("load_json") => LoadedEquals(call.data)]_vars

\* C4 as amended: save_json(path, d) followed by load_json(path) returns a
\* mapping equal to d for every dict d whose keys, at every level, are
\* strings and whose values are None, ints, strings, lists or such dicts
\* (the empty dict and nested dicts included).
C4_RoundTripJsonNative ==
    [][(SavedThen("load_json") /\ JsonNative(call.data)) => LoadedEquals(call.data)]_vars

\* load_json has returned a dict with a nested dict in it, equal to the
\* one saved before.
C4_Witness ==
    /\ call.op = "load_json"
    /\ ~ret.raised
    /\ fs[JsonPath].kind = "json"
    /\ JsonNative(fs[JsonPath].saved)
    /\ \E i \in 1 .. Len(fs[JsonPath].saved.items) : fs[JsonPath].saved.items[i].v.t = "dict"
    /\ PyEq(ret.value, fs[JsonPath].saved)

C8_ReadYamlRaisesValueError ==
    call.op = "read_yaml" =>
        LET kind == fs[JsonPath].kind
        IN  /\ kind \in {"absent", "bad", "blank"} => (ret.raised /\ log = <<"error">>)
            /\ kind \in {"bad", "blank"} => IsValueError(ret.exc)
            /\ ~ret.raised => (kind = "json" /\ ~Falsy(Construct(fs[JsonPath].doc)))

(***************************************************************************)
(*                    SpecSchema: validate_data_schema                     *)
(***************************************************************************)
RaiseWith(e, detail) == [raised |-> TRUE, exc |-> e, value |-> detail]

Range(q) == {q[i] : i \in 1 .. Len(q)}

\* Attribute access on a ConfigBox: BoxKeyError (a KeyError and an
\* AttributeError, no ValueError) for a key the mapping does not hold.
BoxGet(box, name) ==
    IF StrV(name) \in Keys(box) THEN Return(Get(box, StrV(name)))
    ELSE Raise("BoxKeyError")

\* set(xs) of a list of strings.
SetOf(xs) == {xs.items[i].s : i \in 1 .. Len(xs.items)}

\* The difference taken the wrong way round.
missing_cols_reversed(required, columns) == columns \ required

\* missing_cols = set(schema.required_columns) - set(df.columns)
missing_cols(required, columns) == required \ columns

\* pd.api.types.is_dtype_equal(actual, declared) for the dtypes of the
\* model: "int" names int64, "str" names a unicode dtype that no column of
\* a DataFrame has, and a name that is no dtype compares unequal.
is_dtype_equal(actual, declared) == actual = "int64" /\ declared = "int"

\* One warning for each declared column the DataFrame holds with another
\* dtype.
dtype_warnings(df, dtypes) ==
    LET off == SelectSeq(dtypes.items,
                   LAMBDA e : /\ e.k.s \in Range(df.columns)
                              /\ ~is_dtype_equal(df.dtype[e.k.s], e.v.s))
    IN  [i \in 1 .. Len(off) |-> "warning"]

validate_data_schema(files, df, schema_path) ==
    LET y == read_yaml(files, schema_path)
    IN  IF y.ret.raised THEN y
        ELSE
        LET schema == y.ret.value
            required == BoxGet(schema, "required_columns")
        IN  IF required.raised THEN Done(files, required, y.log)
            ELSE IF required.value.t # "list"
                THEN Done(files, Raise("TypeError"), y.log)
            ELSE
            LET missing == missing_cols(SetOf(required.value), Range(df.columns))
                dtypes == BoxGet(schema, "dtypes")
            IN  IF missing # {}
                    THEN Done(files, RaiseWith("ValueError", missing), y.log \o <<"error">>)
                ELSE IF dtypes.raised THEN Done(files, dtypes, y.log)
                ELSE IF dtypes.value.t # "dict"
                    THEN Done(files, Raise("AttributeError"), y.log)
                ELSE Done(files, Return(TRUE),
                          y.log \o dtype_warnings(df, dtypes.value) \o <<"info">>)

ColSeq == <<"customer_id", "churn">>

SeqOf(S) == SelectSeq(ColSeq, LAMBDA c : c \in S)

\* DataFrames by their columns and the dtype of each.
Frames ==
    UNION { {[columns |-> SeqOf(S), dtype |-> f] : f \in [S -> {"int64", "object"}]} :
            S \in SUBSET Range(ColSeq) }

JStrings(q) == Node("array", "", [i \in 1 .. Len(q) |-> Node("string", q[i], <<>>)])

JMapping(q, f) ==
    Node("object", "", [i \in 1 .. Len(q) |-> Entry(q[i], Node("string", f[q[i]], <<>>))])

\* The YAML mappings a schema file may hold: required_columns given (a
\* list, or left without a value) or not, dtypes given (a mapping from
\* column to dtype name) or not.
RequiredParts ==
    {<<>>, <<Entry("required_columns", Node("null", "", <<>>))>>}
        \cup {<<Entry("required_columns", JStrings(SeqOf(S)))>> : S \in SUBSET Range(ColSeq)}

DtypesParts ==
    {<<>>} \cup UNION { {<<Entry("dtypes", JMapping(SeqOf(S), f))>> : f \in [S -> {"int", "str"}]} :
                        S \in SUBSET Range(ColSeq) }

SchemaFiles ==
    {[kind |-> "yaml", doc |-> Node("object", "", r \o d)] : r \in RequiredParts, d \in DtypesParts}
        \cup {[kind |-> "blank"], [kind |-> "bad"]}

SchemaPath == "schema.yaml"

InitSchema ==
    /\ fs = [p \in {SchemaPath} |-> Absent]
    /\ logging = NoLogging
    /\ call = NoCall
    /\ ret = NoRet
    /\ log = <<>>

\* The schema file is written by hand.
WriteSchema(file) ==
    /\ call' = NoCall
    /\ Apply(Done([fs EXCEPT ![SchemaPath] = file], NoRet, <<>>))

ValidateDataSchema(df) ==
    /\ call' = [op |-> "validate_data_schema", df |-> df, schema_path |-> SchemaPath]
    /\ Apply(validate_data_schema(fs, df, SchemaPath))

NextSchema ==
    \/ \E file \in SchemaFiles : WriteSchema(file)
    \/ \E df \in Frames : ValidateDataSchema(df)

SpecSchema == InitSchema /\ [][NextSchema]_vars

\* The schema file is a mapping that lists required_columns.
ListsRequired(file) ==
    /\ file.kind = "yaml"
    /\ \E i \in 1 .. Len(file.doc.items) :
          file.doc.items[i].k = "required_columns" /\ file.doc.items[i].v.t = "array"

\* The columns the schema file lists under required_columns.
RequiredOf(file) ==
    LET e == CHOOSE e \in Range(file.doc.items) : e.k = "required_columns"
    IN  {e.v.items[i].s : i \in 1 .. Len(e.v.items)}

Validated == call.op = "validate_data_schema" /\ ListsRequired(fs[SchemaPath])

\* C1: validate_data_schema raises ValueError exactly when a column listed
\* under required_columns is absent from df.columns; the set the error
\* names is exactly required_columns minus df.columns; when that set is
\* empty no missing-column error is raised.
C1_MissingColumnsError ==
    Validated =>
        LET missing == RequiredOf(fs[SchemaPath]) \ Range(call.df.columns)
        IN  /\ (ret.raised /\ IsValueError(ret.exc)) <=> missing # {}
            /\ missing # {} => (ret.exc = "ValueError" /\ ret.value = missing)
            /\ missing # {} => log[Len(log)] = "error"

\* The error names one of two required columns: the other one is in the
\* DataFrame and is not listed.
C1_Witness ==
    /\ Validated
    /\ RequiredOf(fs[SchemaPath]) = {"customer_id", "churn"}
    /\ Range(call.df.columns) = {"churn"}
    /\ ret.raised
    /\ ret.exc = "ValueError"
    /\ ret.value = {"customer_id"}

\* C2: dtype mismatches are never enforced: for every DataFrame that holds
\* all required columns the call returns True and raises nothing, whatever
\* the dtypes section says, also when the optional dtypes section is not
\* given; a mismatch only adds a warning record.
C2_DtypesNeverEnforced ==
    (Validated /\ RequiredOf(fs[SchemaPath]) \subseteq Range(call.df.columns)) =>
        /\ ~ret.raised
        /\ ret.value = TRUE
        /\ \A i \in 1 .. Len(log) : log[i] \in {"info", "warning"}

(***************************************************************************)
(*                       SpecCsv: save_csv, load_csv                       *)
(*                                                                         *)
(* A DataFrame is [columns, rows]: the column labels in order and the rows *)
(* in order, a row holding one cell (an int or a str) per column; its      *)
(* index is the default one, 0, 1, 2, ...  A CSV file is the sequence of   *)
(* its lines, a line the sequence of its fields.                           *)
(***************************************************************************)
MaxCols == 2

MaxRows == 2

Labels == {"a", "b"}

Cells == {IntV("1"), StrV("x"), StrV("1")}

\* The DataFrames of n columns and at most MaxRows rows.
DataFrames(n) ==
    { [columns |-> c, rows |-> r] :
        c \in [1 .. n -> Labels],
        r \in UNION {[1 .. m -> [1 .. n -> Cells]] : m \in 0 .. MaxRows} }

\* DataFrame.to_csv(path) with pandas' defaults (header=True, index=True):
\* a header line that starts with the empty label of the index, then one
\* line per row that starts with the row's index.
to_csv(data) ==
    [ kind |-> "csv",
      lines |-> <<(<<"">> \o data.columns)>> \o
                [i \in 1 .. Len(data.rows) |->
                    <<ToString(i - 1)>> \o
                    [j \in 1 .. Len(data.columns) |-> data.rows[i][j].s]] ]

\* The texts pandas reads as integers, among those of the model.
IsIntegerText(s) == s \in {ToString(i) : i \in 0 .. MaxRows + 1}

\* The labels pandas gives the columns of a header: an empty field at
\* position i is "Unnamed: i", a repeated label gets ".1", ".2", ...
header_labels(header) ==
    [j \in 1 .. Len(header) |->
        IF header[j] = "" THEN "Unnamed: " \o ToString(j - 1)
        ELSE LET before == Cardinality({i \in 1 .. (j - 1) : header[i] = header[j]})
             IN  IF before = 0 THEN header[j]
                 ELSE header[j] \o "." \o ToString(before)]

\* pd.read_csv(path) with pandas' defaults: the first line is the header,
\* every other line a row, and a column is of integers when every field of
\* it reads as an integer, of strings otherwise.
read_csv(file) ==
    IF file.kind = "absent" THEN Raise("FileNotFoundError")
    ELSE LET header == file.lines[1]
             body == SubSeq(file.lines, 2, Len(file.lines))
             integer(j) == \A i \in 1 .. Len(body) : IsIntegerText(body[i][j])
         IN  Return([ columns |-> header_labels(header),
                      rows |-> [i \in 1 .. Len(body) |->
                                   [j \in 1 .. Len(header) |->
                                       IF integer(j) THEN IntV(body[i][j])
                                       ELSE StrV(body[i][j])]] ])

save_csv(files, data, path) ==
    Done([files EXCEPT ![path] = to_csv(data)], Return(NoneV), <<"info">>)

load_csv(files, path) ==
    LET df == read_csv(files[path])
    IN  Done(files, df, IF df.raised THEN <<>> ELSE <<"info">>)

CsvPath == "data.csv"

InitCsv ==
    /\ fs = [p \in {CsvPath} |-> Absent]
    /\ logging = NoLogging
    /\ call = NoCall
    /\ ret = NoRet
    /\ log = <<>>

SaveCsv(df) ==
    /\ call' = [op |-> "save_csv", data |-> df, path |-> CsvPath]
    /\ Apply(save_csv(fs, df, CsvPath))

LoadCsv ==
    /\ call' = [op |-> "load_csv", path |-> CsvPath]
    /\ Apply(load_csv(fs, CsvPath))

NextCsv ==
    \/ \E n \in 1 .. MaxCols : \E df \in DataFrames(n) : SaveCsv(df)
    \/ LoadCsv

SpecCsv == InitCsv /\ [][NextCsv]_vars

\* C6: save_csv(df, path) followed by load_csv(path), both without extra
\* keyword arguments, returns a DataFrame with exactly the columns of df
\* (same names, same count, same order) and the same rows.
C6_CsvRoundTrip ==
    [][(call.op = "save_csv" /\ ~ret.raised /\ call'.op = "load_csv") =>
        /\ ~ret'.raised
        /\ ret'.value.columns = call.data.columns
        /\ ret'.value.rows = call.data.rows]_vars

(***************************************************************************)
(*                      SpecDirs: create_directories                       *)
(*                                                                         *)
(* The file system is a tree: a path under the working directory is        *)
(* absent, a directory, or a regular file, and only a directory has        *)
(* anything below it.                                                      *)
(***************************************************************************)
MaxList == 2

DirPaths == {"a", "a/b", "a/b/c", "d", "d/e"}

\* os.path.split(name)[0] for the directories of the model; "" for a path
\* directly under the working directory.
Parent(name) ==
    CASE name = "a/b" -> "a"
      [] name = "a/b/c" -> "a/b"
      [] name = "d/e" -> "d"
      [] name = "run/logs" -> "run"
      [] OTHER -> ""

Directory == [kind |-> "dir"]

RegularFile == [kind |-> "file", size |-> 0]

\* os.mkdir(name)
mkdir(files, name) ==
    IF files[name].kind # "absent" THEN Done(files, Raise("FileExistsError"), <<>>)
    ELSE IF Parent(name) # "" /\ files[Parent(name)].kind = "file"
        THEN Done(files, Raise("NotADirectoryError"), <<>>)
    ELSE IF Parent(name) # "" /\ files[Parent(name)].kind = "absent"
        THEN Done(files, Raise("FileNotFoundError"), <<>>)
    ELSE Done([files EXCEPT ![name] = Directory], Return(NoneV), <<>>)

\* os.makedirs(name, exist_ok): the missing parents first, then the leaf;
\* an OSError of the leaf's mkdir is dropped when exist_ok is set and the
\* leaf is a directory.
RECURSIVE os_makedirs(_, _, _)
os_makedirs(files, name, exist_ok) ==
    LET head == Parent(name)
        up == IF head # "" /\ files[head].kind = "absent"
                  THEN os_makedirs(files, head, exist_ok)
              ELSE Done(files, Return(NoneV), <<>>)
    IN  IF up.ret.raised /\ up.ret.exc # "FileExistsError" THEN up
        ELSE LET leaf == mkdir(up.fs, name)
             IN  IF leaf.ret.raised /\ exist_ok /\ up.fs[name].kind = "dir"
                     THEN Done(up.fs, Return(NoneV), <<>>)
                 ELSE leaf

\* os.makedirs(path) as it is without exist_ok=True.
makedirs_strict(files, path) == os_makedirs(files, path, FALSE)

\* os.makedirs(path, exist_ok=True), the call of create_directories.
makedirs(files, path) == os_makedirs(files, path, TRUE)

\* create_directories(path_to_directories): one makedirs and, verbose
\* being True, one info record per path; the first exception ends the loop.
RECURSIVE create_from(_, _, _, _)
create_from(files, paths, i, records) ==
    IF i > Len(paths) THEN Done(files, Return(NoneV), records)
    ELSE LET made == makedirs(files, paths[i])
         IN  IF made.ret.raised THEN Done(made.fs, made.ret, records)
             ELSE create_from(made.fs, paths, i + 1, records \o <<"info">>)

create_directories(files, path_to_directories) ==
    create_from(files, path_to_directories, 1, <<>>)

PathLists == UNION {[1 .. n -> DirPaths] : n \in 0 .. MaxList}

InitDirs ==
    /\ fs = [p \in DirPaths |-> Absent]
    /\ logging = NoLogging
    /\ call = NoCall
    /\ ret = NoRet
    /\ log = <<>>

\* The call record keeps the file system the call started from.
CreateDirectories(paths) ==
    /\ call' = [op |-> "create_directories", path_to_directories |-> paths, before |-> fs]
    /\ Apply(create_directories(fs, paths))

\* Some program writes a regular file into an existing directory.
Touch(p) ==
    /\ fs[p].kind = "absent"
    /\ Parent(p) # "" => fs[Parent(p)].kind = "dir"
    /\ call' = NoCall
    /\ Apply(Done([fs EXCEPT ![p] = RegularFile], NoRet, <<>>))

\* os.remove or os.rmdir (the self-test's cleanup) of a path with nothing
\* below it.
Remove(p) ==
    /\ fs[p].kind # "absent"
    /\ \A q \in DirPaths : Parent(q) = p => fs[q].kind = "absent"
    /\ call' = NoCall
    /\ Apply(Done([fs EXCEPT ![p] = Absent], NoRet, <<>>))

NextDirs ==
    \/ \E paths \in PathLists : CreateDirectories(paths)
    \/ \E p \in DirPaths : Touch(p)
    \/ \E p \in DirPaths : Remove(p)

SpecDirs == InitDirs /\ [][NextDirs]_vars

RECURSIVE UpTo(_)
UpTo(p) == IF p = "" THEN {} ELSE {p} \cup UpTo(Parent(p))

\* What create_directories(paths) promises of the state it left, started
\* from `before': no error now and none from a second call, which changes
\* nothing; every path of the list a directory; what existed untouched.
Idempotent ==
    LET paths == call.path_to_directories
        again == create_directories(fs, paths)
    IN  /\ ~ret.raised
        /\ again.fs = fs
        /\ ~again.ret.raised
        /\ \A i \in 1 .. Len(paths) : fs[paths[i]].kind = "dir"
        /\ \A p \in DirPaths : call.before[p].kind # "absent" => fs[p] = call.before[p]

\* C7 as stated: from every state in which no path of the list is an
\* existing non-directory, create_directories is idempotent.
C7_IdempotentUnlessPathIsFile ==
    ( /\ call.op = "create_directories"
      /\ \A p \in Range(call.path_to_directories) : call.before[p].kind # "file" )
        => Idempotent

\* C7 as amended: from every state in which no path of the list, and no
\* directory on the way to one, is an existing non-directory,
\* create_directories is idempotent; and in every case, an error included,
\* a second call leaves the file system as the first call left it.
C7_IdempotentUnlessFileOnPath ==
    call.op = "create_directories" =>
        /\ create_directories(fs, call.path_to_directories).fs = fs
        /\ (\A p \in Range(call.path_to_directories) :
                \A q \in UpTo(p) : call.before[q].kind # "file")
               => Idempotent

\* create_directories has made a/b/c and its parents beside a file that
\* was there before.
C7_Witness ==
    /\ call.op = "create_directories"
    /\ call.path_to_directories = <<"a/b/c", "d">>
    /\ call.before["a"].kind = "absent"
    /\ call.before["d"].kind = "dir"
    /\ call.before["d/e"].kind = "file"
    /\ fs["a/b/c"].kind = "dir"
    /\ fs["d/e"].kind = "file"
    /\ ~ret.raised

(***************************************************************************)
(*                    SpecModel: save_model, load_model                    *)
(***************************************************************************)
ModelPaths == {"model.joblib", "best.joblib"}

\* Path(f"{path}.metadata.json")
metadata_path(path) == path \o ".metadata.json"

Models == {"model_1", "model_2", "model_3"}

\* The metadata of a call: None, an empty dict, dicts json can write, and
\* one (a datetime among its values) json cannot.
Metadata ==
    { NoneV, DictV(<<>>),
      DictV(<<Entry(StrV("algorithm"), StrV("XGBoost"))>>),
      DictV(<<Entry(StrV("algorithm"), StrV("RandomForest"))>>),
      DictV(<<Entry(StrV("algorithm"), StrV("XGBoost")),
              Entry(StrV("training_date"), Opaque("datetime"))>>) }

\* joblib.dump(data, path).  given keeps, as history, the metadata of
\* the save_model call that wrote the blob.
save_bin(files, data, path, given) ==
    Done([files EXCEPT ![path] = [kind |-> "blob", data |-> data, given |-> given]],
         Return(NoneV), <<"info">>)

\* joblib.load(path)
load_bin(files, path) ==
    IF files[path].kind = "absent" THEN Done(files, Raise("FileNotFoundError"), <<>>)
    ELSE Done(files, Return(files[path].data), <<"info">>)

\* save_model(model, path, metadata): the blob first; the sidecar is
\* written only for a metadata that is neither None nor empty, and nothing
\* else touches it.
save_model(files, model, path, metadata) ==
    LET blob == save_bin(files, model, path, metadata)
    IN  IF Falsy(metadata) THEN blob
        ELSE LET side == save_json(blob.fs, metadata_path(path), metadata)
             IN  IF side.ret.raised THEN Done(side.fs, side.ret, blob.log \o side.log)
                 ELSE Done(side.fs, Return(NoneV), blob.log \o side.log \o <<"info">>)

\* load_model(path): the blob, then the sidecar whenever a file of that
\* name exists.
load_model(files, path) ==
    LET blob == load_bin(files, path)
    IN  IF blob.ret.raised THEN blob
        ELSE IF files[metadata_path(path)].kind = "absent" THEN blob
        ELSE LET side == load_json(files, metadata_path(path))
             IN  IF side.ret.raised THEN Done(files, side.ret, blob.log \o side.log)
                 ELSE Done(files, blob.ret, blob.log \o side.log \o <<"info">>)

InitModel ==
    /\ fs = [p \in ModelPaths \cup {metadata_path(q) : q \in ModelPaths} |-> Absent]
    /\ logging = NoLogging
    /\ call = NoCall
    /\ ret = NoRet
    /\ log = <<>>

SaveModel(model, path, metadata) ==
    /\ call' = [op |-> "save_model", model |-> model, path |-> path, metadata |-> metadata]
    /\ Apply(save_model(fs, model, path, metadata))

LoadModel(path) ==
    /\ call' = [op |-> "load_model", path |-> path]
    /\ Apply(load_model(fs, path))

NextModel ==
    \/ \E model \in Models, path \in ModelPaths, metadata \in Metadata :
           SaveModel(model, path, metadata)
    \/ \E path \in ModelPaths : LoadModel(path)

SpecModel == InitModel /\ [][NextModel]_vars

\* C9: after any sequence of save_model calls on a path, the sidecar either
\* does not exist or holds exactly the metadata of the most recent call on
\* that path, and load_model returns the model saved last without failing
\* on the sidecar.
C9_SidecarBelongsToModel ==
    /\ \A path \in ModelPaths :
          fs[path].kind = "blob" =>
              LET side == fs[metadata_path(path)]
              IN  \/ side.kind = "absent"
                  \/ side.kind = "json" /\ side.saved = fs[path].given
    /\ (call.op = "load_model" /\ fs[call.path].kind = "blob") =>
          (~ret.raised /\ ret.value = fs[call.path].data)

(***************************************************************************)
(*                        SpecLogger: setup_logger                         *)
(*                                                                         *)
(* logging.loggers maps a logger's name to its handlers, in the order they *)
(* were added; a handler is [kind, target, serial]: a rotating file        *)
(* handler on a path or a stream handler on stdout or stderr, and the      *)
(* number of the object among the handlers created.  logging.created       *)
(* counts the handlers created so far.                                     *)
(***************************************************************************)
MaxCreated == 6

LoggerNames == {"root", "luxottica_churn", "luxottica_churn.utils"}

\* The parent in logging's hierarchy of dotted names; the root has none.
LoggerParent(name) ==
    CASE name = "luxottica_churn.utils" -> "luxottica_churn"
      [] name = "luxottica_churn" -> "root"
      [] OTHER -> ""

LogDirs == {"logs", "run/logs"}

Days == {"2025-01-01", "2025-01-02"}

\* os.path.join(log_dir, f"{datetime.now().strftime('%Y-%m-%d')}.log")
log_filepath(log_dir, today) == log_dir \o "/" \o today \o ".log"

LogFiles == {log_filepath(d, t) : d \in LogDirs, t \in Days}

\* Logger.hasHandlers(): this logger or one above it holds a handler
\* (propagate is left True everywhere).
RECURSIVE hasHandlers(_, _)
hasHandlers(loggers, name) ==
    \/ loggers[name] # <<>>
    \/ LoggerParent(name) # "" /\ hasHandlers(loggers, LoggerParent(name))

\* setup_logger without the clearing of lines 50-51.
handlers_kept(loggers, name) == loggers[name]

\* if logger.hasHandlers(): logger.handlers.clear()
handlers_cleared(loggers, name) ==
    IF hasHandlers(loggers, name) THEN <<>> ELSE loggers[name]

Handler(kind, target, serial) == [kind |-> kind, target |-> target, serial |-> serial]

\* Opening a file for appending creates it when it is not there.
opened(files, path) ==
    IF files[path].kind = "absent" THEN [files EXCEPT ![path] = RegularFile] ELSE files

\* setup_logger(name, log_dir=log_dir, console_output=console_output) on a
\* day `today': the result is the file system and the logging state it
\* leaves.
setup_logger(files, lg, name, log_dir, console_output, today) ==
    LET made == makedirs(files, log_dir)
        path == log_filepath(log_dir, today)
        file_handler == Handler("file", path, lg.created + 1)
        console_handler == Handler("console", "stdout", lg.created + 2)
        kept == handlers_cleared(lg.loggers, name)
    IN  IF made.ret.raised THEN [fs |-> made.fs, logging |-> lg, ret |-> made.ret]
        ELSE [ fs |-> opened(made.fs, path),
               logging |->
                   [ loggers |-> [lg.loggers EXCEPT ![name] =
                         kept \o <<file_handler>> \o
                         (IF console_output THEN <<console_handler>> ELSE <<>>)],
                     created |-> lg.created + (IF console_output THEN 2 ELSE 1) ],
               ret |-> Return(name) ]

\* The handlers a record logged on `name' reaches: the logger's own, then
\* those of every logger above it (Logger.callHandlers).
RECURSIVE callHandlers(_, _)
callHandlers(loggers, name) ==
    loggers[name] \o
        (IF LoggerParent(name) = "" THEN <<>> ELSE callHandlers(loggers, LoggerParent(name)))

PristineLogging == [loggers |-> [n \in LoggerNames |-> <<>>], created |-> 0]

PristineFiles == [p \in LogDirs \cup {"run"} \cup LogFiles |-> Absent]

\* Importing the module runs `logger = setup_logger()' (line 75).
InitLogger ==
    \E today \in Days :
        LET out == setup_logger(PristineFiles, PristineLogging,
                                "luxottica_churn", "logs", TRUE, today)
        IN  /\ fs = out.fs
            /\ logging = out.logging
            /\ call = [op |-> "setup_logger", name |-> "luxottica_churn", log_dir |-> "logs",
                       console_output |-> TRUE, today |-> today]
            /\ ret = out.ret
            /\ log = <<>>

SetupLogger(name, log_dir, console_output, today) ==
    /\ logging.created + 2 <= MaxCreated
    /\ LET out == setup_logger(fs, logging, name, log_dir, console_output, today)
       IN  /\ fs' = out.fs
           /\ logging' = out.logging
           /\ ret' = out.ret
    /\ call' = [op |-> "setup_logger", name |-> name, log_dir |-> log_dir,
                console_output |-> console_output, today |-> today]
    /\ log' = <<>>

\* logging.basicConfig(...) of template.py: a stream handler on stderr for
\* the root logger, unless the root has a handler already.
BasicConfig ==
    /\ logging.loggers["root"] = <<>>
    /\ logging.created + 1 <= MaxCreated
    /\ logging' = [ loggers |-> [logging.loggers EXCEPT !["root"] =
                        <<Handler("console", "stderr", logging.created + 1)>>],
                    created |-> logging.created + 1 ]
    /\ call' = NoCall
    /\ ret' = NoRet
    /\ log' = <<>>
    /\ UNCHANGED fs

\* A record is logged on the logger `name': ret lists, in order, the
\* destinations it is written to.
LogRecord(name) ==
    /\ call' = [op |-> "log", name |-> name]
    /\ ret' = Return([i \in 1 .. Len(callHandlers(logging.loggers, name)) |->
                         callHandlers(logging.loggers, name)[i].target])
    /\ log' = <<>>
    /\ UNCHANGED <<fs, logging>>

NextLogger ==
    \/ \E name \in LoggerNames \ {"root"}, log_dir \in LogDirs,
          console_output \in BOOLEAN, today \in Days :
              SetupLogger(name, log_dir, console_output, today)
    \/ BasicConfig
    \/ \E name \in LoggerNames \ {"root"} : LogRecord(name)

SpecLogger == InitLogger /\ [][NextLogger]_vars

\* After setup_logger the named logger holds exactly the handlers the call
\* made: one rotating file handler on today's file of log_dir, then one
\* console handler on stdout if console_output is True and none otherwise;
\* no handler of an earlier call is left.
OnlyTheNewHandlers ==
    LET hs == logging.loggers[call.name]
    IN  /\ Len(hs) = (IF call.console_output THEN 2 ELSE 1)
        /\ hs[1].kind = "file"
        /\ hs[1].target = log_filepath(call.log_dir, call.today)
        /\ call.console_output => (hs[2].kind = "console" /\ hs[2].target = "stdout")
        /\ \A i \in 1 .. Len(hs) : hs[i].serial > logging.created - Len(hs)

\* No destination occurs twice among those a record was written to.
OncePerDestination(targets) ==
    \A i, j \in 1 .. Len(targets) : targets[i] = targets[j] => i = j

\* C10 as stated: after setup_logger calls the named logger holds exactly
\* one rotating file handler plus one console handler if the latest call
\* had console_output=True, all handlers of earlier calls are removed, so
\* each log record is written once per destination.
C10_NoDuplicateOutput ==
    /\ (call.op = "setup_logger" /\ ~ret.raised) => OnlyTheNewHandlers
    /\ call.op = "log" => OncePerDestination(ret.value)

\* C10 as amended: the named logger's own handlers are exactly those of
\* the latest call, and a record is written once per destination whenever
\* no logger above the named one holds a handler; records also reach the
\* handlers of the loggers above (propagate stays True), so a logger
\* configured below another configured one writes a record twice.
C10_NoDuplicateHandlers ==
    /\ (call.op = "setup_logger" /\ ~ret.raised) => OnlyTheNewHandlers
    /\ ( /\ call.op = "log"
         /\ ~hasHandlers(logging.loggers, LoggerParent(call.name)) )
           => OncePerDestination(ret.value)

\* A record went once to the file and once to stdout after the logger had
\* been set up again over its import-time handlers.
C10_Witness ==
    /\ call.op = "log"
    /\ call.name = "luxottica_churn"
    /\ logging.created = 4
    /\ Len(logging.loggers["luxottica_churn"]) = 2
    /\ logging.loggers["luxottica_churn"][1].serial = 3
    /\ ret.value = <<logging.loggers["luxottica_churn"][1].target, "stdout">>

=============================================================================
